---- MODULE Spec2Model ----
(***************************************************************************)
(* A model of arrow/factory.py: ArrowFactory.get, ArrowFactory.utcnow and   *)
(* ArrowFactory.now.  One call of the factory is one behaviour: Init draws  *)
(* the call (operation, positional arguments, keyword arguments) and the    *)
(* action of that operation runs the whole method, recording every call it  *)
(* makes to its collaborators (the parsers and the Arrow constructors) and  *)
(* how it ended.  The collaborators live outside factory.py; whether one    *)
(* of them returns or raises is an input of the action.                     *)
(***************************************************************************)
EXTENDS Naturals, Sequences, FiniteSets, TLC

VARIABLES op, args, kwargs, calls, outcome

vars == <<op, args, kwargs, calls, outcome>>

(* Bounds of the model. *)
MaxArgs == 3
MaxExtraKwargs == 2

(***************************************************************************)
(* Python values, by the type that get's isinstance tests tell apart.       *)
(***************************************************************************)
V(k, x) == [kind |-> k, v |-> x]

Absent == V("absent", "")
None == V("None", "")
PyTrue == V("bool", "True")
PyFalse == V("bool", "False")
DEFAULT_LOCALE == V("str", "DEFAULT_LOCALE")
tzutc == V("tzinfo", "tzutc")
tzlocal == V("tzinfo", "tzlocal")

IsStr(x) == x.kind = "str"
IsDecimal(x) == x.kind = "Decimal"
IsArrow(x) == x.kind = "Arrow"
IsDatetime(x) == x.kind = "datetime"
\* datetime is a subclass of date
IsDate(x) == x.kind \in {"date", "datetime"}
IsTzinfo(x) == x.kind = "tzinfo"
IsList(x) == x.kind = "list"
IsStructTime(x) == x.kind = "struct_time"
IsTuple(x) == x.kind \in {"tuple2", "tuple3"}
TupleLen(x) == IF x.kind = "tuple3" THEN 3 ELSE 2

\* arrow.util.is_timestamp on a value that is not a str: the numbers
is_timestamp(x) == x.kind \in {"int", "float"}

\* float(arg) of a Decimal
ToFloat(x) == V("float", x.v)
\* arg.datetime of an Arrow
DatetimeOf(x) == V("datetime", x.v)
\* calendar.timegm(arg)
timegm(x) == V("int", "timegm")
\* the date iso_to_gregorian(*arg) returns
iso_to_gregorian(x) == V("date", "iso")

(* The values a caller passes. *)
TzStrings == {V("str", "US/Pacific")}
TzObjects == {V("tzinfo", "EST")}
ArgValues ==
    { V("Arrow", "a"), V("datetime", "dt"), V("date", "d"),
      V("struct_time", "st"), V("int", "1"), V("Decimal", "1.5"),
      V("str", "2021-01-01T12:30:45+02:00"), V("list", "fmts"),
      V("tuple3", "iso"), V("tuple2", "pair"), None, V("object", "o") }
        \cup TzStrings \cup TzObjects
\* positional arguments after the second are only ever passed through
RestArgValues == { V("int", "1"), V("str", "2021-01-01T12:30:45+02:00") }

ArgsOfLen(n) ==
    IF n <= 2 THEN [1..n -> ArgValues]
    ELSE { [i \in 1..n |-> IF i <= 2 THEN a[i] ELSE r[i - 2]] :
             a \in [1..2 -> ArgValues], r \in [1..(n - 2) -> RestArgValues] }
GetArgs == UNION { ArgsOfLen(n) : n \in 0..MaxArgs }

\* kwargs: the three keywords get reads, and the number of other keywords
Kwargs ==
    [ locale : {Absent, V("str", "fr")},
      tzinfo : {Absent, None} \cup TzStrings \cup TzObjects,
      normalize_whitespace : {Absent, PyTrue, PyFalse},
      extra : 0..MaxExtraKwargs ]
NoKwargs ==
    [ locale |-> Absent, tzinfo |-> Absent,
      normalize_whitespace |-> Absent, extra |-> 0 ]

NowArgs == {<<>>} \cup { <<t>> : t \in {None} \cup TzStrings \cup TzObjects }

(* What a collaborator does when called. *)
ParserOutcomes == {"ParserError", "naive", "+02:00"}

(***************************************************************************)
(* A call to a collaborator, and the result of running a method: the calls  *)
(* it made, in order, and how it ended.                                     *)
(***************************************************************************)
Call(fn, a, tzi, loc, ex, r) ==
    [fn |-> fn, args |-> a, tzinfo |-> tzi, locale |-> loc, extra |-> ex,
     ret |-> r]

NewArrow == V("Arrow", "new")

Raise(e) == [calls |-> <<>>, outcome |-> e]

\* return self.type.fn(*a, tzinfo=tzi): the constructor returns or raises
Construct(fn, a, tzi, ex, cr) ==
    [calls |-> <<Call(fn, a, tzi, Absent, ex, IF cr THEN NewArrow ELSE Absent)>>,
     outcome |-> IF cr THEN "returned" ELSE "CtorError"]

\* a call that came first, then the rest of the method
Then(c, rest) == [calls |-> <<c>> \o rest.calls, outcome |-> rest.outcome]

Init ==
    /\ \/ op = "get" /\ args \in GetArgs /\ kwargs \in Kwargs
       \/ op = "now" /\ args \in NowArgs /\ kwargs = NoKwargs
       \/ op = "utcnow" /\ args = <<>> /\ kwargs = NoKwargs
    /\ calls = <<>>
    /\ outcome = "pending"

(***************************************************************************)
(* ArrowFactory.get                                                         *)
(***************************************************************************)
\* locale = kwargs.pop("locale", DEFAULT_LOCALE)
Locale(kw) == IF kw.locale = Absent THEN DEFAULT_LOCALE ELSE kw.locale

\* tz = kwargs.get("tzinfo", None)
Tz(kw) == IF kw.tzinfo = Absent THEN None ELSE kw.tzinfo

\* normalize_whitespace = kwargs.pop("normalize_whitespace", True)
NormalizeWhitespace(kw) ==
    IF kw.normalize_whitespace = Absent THEN PyTrue
    ELSE kw.normalize_whitespace

\* len(kwargs) once locale and normalize_whitespace are popped
RemainingKwargs(kw) == (IF kw.tzinfo = Absent THEN 0 ELSE 1) + kw.extra

ArgCount(a, kw) ==
    LET byKwargs == IF RemainingKwargs(kw) > 1 THEN 2 ELSE Len(a)
    IN  IF RemainingKwargs(kw) = 1 /\ Tz(kw) = None THEN 3 ELSE byKwargs

\* parser.TzinfoParser.parse(s): returns a tzinfo (tzr) or raises
ParsedTz(s) == V("tzinfo", s.v)
TzinfoParserParse(s, tzr) ==
    Call("TzinfoParser.parse", <<s>>, Absent, Absent, 0,
         IF tzr THEN ParsedTz(s) ELSE Absent)

\* a call of a method of parser.DateTimeParser(locale): returns a datetime
\* with the offset pr, or raises
ParserCall(fn, locale, a, pr) ==
    Call(fn, a, Absent, locale, 0,
         IF pr = "ParserError" THEN Absent ELSE V("datetime", pr))

\* parser.DateTimeParser(locale).parse_iso(arg, normalize_whitespace)
ParseIso(arg, locale, nw, pr) == ParserCall("parse_iso", locale, <<arg, nw>>, pr)

ParseSwapped(a1, a2, locale, nw, pr) ==
    ParserCall("parse", locale, <<a2, a1, nw>>, pr)

\* parser.DateTimeParser(locale).parse(args[0], args[1], normalize_whitespace)
Parse(a1, a2, locale, nw, pr) == ParserCall("parse", locale, <<a1, a2, nw>>, pr)

FromParsedUtc(dt, cr) == Construct("fromdatetime", <<dt>>, tzutc, 0, cr)

\* return self.type.fromdatetime(dt)
FromParsed(dt, cr) == Construct("fromdatetime", <<dt>>, Absent, 0, cr)

\* dt = <parser call>; return self.type.fromdatetime(dt)
ParseThenBuild(c, cr) ==
    IF c.ret = Absent THEN Then(c, Raise("ParserError"))
    ELSE Then(c, FromParsed(c.ret, cr))

GetNoArgs(tz, tzr, cr) ==
    IF IsStr(tz) THEN
        IF tzr
        THEN Then(TzinfoParserParse(tz, tzr), Construct("now", <<>>, tzutc, 0, cr))
        ELSE Then(TzinfoParserParse(tz, tzr), Raise("ParserError"))
    ELSE IF IsTzinfo(tz) THEN Construct("now", <<>>, Absent, 0, cr)
    ELSE Construct("utcnow", <<>>, Absent, 0, cr)

GetOneArg(a, tz, locale, nw, pr, cr) ==
    LET arg == IF IsDecimal(a[1]) THEN ToFloat(a[1]) ELSE a[1]
    IN  IF arg = None THEN Construct("utcnow", <<>>, Absent, 0, cr)
        ELSE IF ~IsStr(arg) /\ is_timestamp(arg)
            THEN Construct("fromtimestamp", <<arg>>, Absent, 0, cr)
        ELSE IF IsArrow(arg)
            THEN Construct("fromdatetime", <<DatetimeOf(arg)>>, tz, 0, cr)
        ELSE IF IsDatetime(arg)
            THEN Construct("fromdatetime", <<arg>>, Absent, 0, cr)
        ELSE IF IsDate(arg)
            THEN Construct("fromdate", <<arg>>, None, 0, cr)
        ELSE IF IsTzinfo(arg)
            THEN Construct("now", <<>>, arg, 0, cr)
        ELSE IF IsStr(arg)
            THEN ParseThenBuild(ParseIso(arg, locale, nw, pr), cr)
        ELSE IF IsStructTime(arg)
            THEN Construct("utcfromtimestamp", <<timegm(arg)>>, Absent, 0, cr)
        ELSE IF IsTuple(arg) /\ TupleLen(arg) = 3
            THEN Construct("fromdate", <<iso_to_gregorian(arg)>>, None, 0, cr)
        ELSE Raise("TypeError")

GetTwoArgs(a, tz, locale, nw, pr, cr) ==
    \* arg_1, arg_2 = args[0], args[1]
    IF Len(a) < 2 THEN Raise("IndexError")
    ELSE LET arg_1 == a[1]
             arg_2 == a[2]
         IN  IF IsDatetime(arg_1) THEN
                 IF IsTzinfo(arg_2) \/ IsStr(arg_2)
                 THEN Construct("fromdatetime", <<arg_1>>, None, 0, cr)
                 ELSE Raise("TypeError")
             ELSE IF IsDate(arg_1) THEN
                 IF IsTzinfo(arg_2) \/ IsStr(arg_2)
                 THEN Construct("fromdate", <<arg_1>>, Absent, 0, cr)
                 ELSE Raise("TypeError")
             ELSE IF IsStr(arg_1) /\ (IsStr(arg_2) \/ IsList(arg_2))
                 THEN ParseThenBuild(Parse(a[1], a[2], locale, nw, pr), cr)
             ELSE Raise("TypeError")

\* return self.type(*args, **kwargs)
GetConstruct(a, kw, cr) == Construct("Arrow", a, kw.tzinfo, kw.extra, cr)

get(a, kw, pr, tzr, cr) ==
    LET locale == Locale(kw)
        tz == Tz(kw)
        normalize_whitespace == NormalizeWhitespace(kw)
        arg_count == ArgCount(a, kw)
    IN  IF arg_count = 0 THEN GetNoArgs(tz, tzr, cr)
        ELSE IF arg_count = 1
            THEN GetOneArg(a, tz, locale, normalize_whitespace, pr, cr)
        ELSE IF arg_count = 2
            THEN GetTwoArgs(a, tz, locale, normalize_whitespace, pr, cr)
        ELSE GetConstruct(a, kw, cr)

Get ==
    /\ op = "get"
    /\ outcome = "pending"
    /\ \E pr \in ParserOutcomes, tzr \in BOOLEAN, cr \in BOOLEAN :
         /\ calls' = get(args, kwargs, pr, tzr, cr).calls
         /\ outcome' = get(args, kwargs, pr, tzr, cr).outcome
    /\ UNCHANGED <<op, args, kwargs>>

(***************************************************************************)
(* ArrowFactory.utcnow and ArrowFactory.now                                 *)
(***************************************************************************)
utcnow(cr) == Construct("utcnow", <<>>, Absent, 0, cr)

Utcnow ==
    /\ op = "utcnow"
    /\ outcome = "pending"
    /\ \E cr \in BOOLEAN :
         /\ calls' = utcnow(cr).calls
         /\ outcome' = utcnow(cr).outcome
    /\ UNCHANGED <<op, args, kwargs>>

nowLocalOnly(a, tzr, cr) == Construct("now", <<>>, tzlocal, 0, cr)

now(a, tzr, cr) ==
    LET tz == IF Len(a) = 0 THEN None ELSE a[1]
    IN  IF tz = None THEN Construct("now", <<>>, tzlocal, 0, cr)
        ELSE IF ~IsTzinfo(tz) THEN
            IF tzr
            THEN Then(TzinfoParserParse(tz, tzr),
                      Construct("now", <<>>, ParsedTz(tz), 0, cr))
            ELSE Then(TzinfoParserParse(tz, tzr), Raise("ParserError"))
        ELSE Construct("now", <<>>, tz, 0, cr)

Now ==
    /\ op = "now"
    /\ outcome = "pending"
    /\ \E tzr \in BOOLEAN, cr \in BOOLEAN :
         /\ calls' = now(args, tzr, cr).calls
         /\ outcome' = now(args, tzr, cr).outcome
    /\ UNCHANGED <<op, args, kwargs>>

Next == Get \/ Utcnow \/ Now

Spec == Init /\ [][Next]_vars

(***************************************************************************)
(* Vocabulary of the properties.                                            *)
(***************************************************************************)
Done == outcome # "pending"

ParserFns == {"parse", "parse_iso"}
CtorFns ==
    {"Arrow", "now", "utcnow", "utcfromtimestamp", "fromtimestamp",
     "fromdatetime", "fromdate"}
ParserCalls == { i \in 1..Len(calls) : calls[i].fn \in ParserFns }
CtorCalls == { i \in 1..Len(calls) : calls[i].fn \in CtorFns }
NowCalls == { i \in 1..Len(calls) : calls[i].fn = "now" }
LastArg(c) == c.args[Len(c.args)]

\* the keywords left after locale and normalize_whitespace do not redirect
\* the call: no unknown keyword, and no tzinfo=None
PlainKwargs == kwargs.extra = 0 /\ kwargs.tzinfo # None

OneString == Len(args) = 1 /\ IsStr(args[1])
StringAndFormats ==
    Len(args) = 2 /\ IsStr(args[1]) /\ (IsStr(args[2]) \/ IsList(args[2]))

ExpectedLocale ==
    IF kwargs.locale = Absent THEN DEFAULT_LOCALE ELSE kwargs.locale

(* C1: every get call that reaches the parser passes it normalize_whitespace
   = False when the caller did not pass the keyword, and the caller's value
   when the caller did. *)
C1_NormalizeWhitespaceDefaultFalse ==
    (op = "get" /\ Done) =>
        \A i \in ParserCalls :
            LastArg(calls[i]) =
                IF kwargs.normalize_whitespace = Absent THEN PyFalse
                ELSE kwargs.normalize_whitespace

(* C2: get(text) makes exactly one parser call, parse_iso(text, ...), and
   get(text, fmt) makes exactly one parser call, parse(text, fmt, ...), with
   text and fmt unchanged; the parser is built with the caller's locale, or
   with DEFAULT_LOCALE when none is passed. *)
C2_StringRouting ==
    (op = "get" /\ Done /\ PlainKwargs) =>
        /\ OneString =>
              /\ ParserCalls = {1}
              /\ calls[1].fn = "parse_iso"
              /\ calls[1].args[1] = args[1]
              /\ calls[1].locale = ExpectedLocale
        /\ StringAndFormats =>
              /\ ParserCalls = {1}
              /\ calls[1].fn = "parse"
              /\ calls[1].args[1] = args[1]
              /\ calls[1].args[2] = args[2]
              /\ calls[1].locale = ExpectedLocale

C2_Witness ==
    /\ op = "get" /\ outcome = "returned" /\ PlainKwargs
    /\ StringAndFormats /\ IsList(args[2])
    /\ kwargs.locale # Absent
    /\ calls[1].fn = "parse"

(* C3: every get call ends either with the value of exactly one Arrow
   constructor call or with a typed failure (TypeError of get, or the error
   of the parser or constructor it called); it never fails reading a
   positional argument the caller did not supply. *)
C3_ReturnsOrTypedFailure ==
    (op = "get" /\ Done) =>
        \/ /\ outcome = "returned"
           /\ CtorCalls = {Len(calls)}
           /\ calls[Len(calls)].ret # Absent
        \/ outcome \in {"TypeError", "ParserError", "CtorError"}

(* C4: a single positional argument of no supported kind (None and tuples
   of a length other than 3 included) makes get raise TypeError, and no
   Arrow constructor is called. *)
C4_UnsupportedArgumentRaises ==
    ( /\ op = "get" /\ Done /\ PlainKwargs
      /\ Len(args) = 1
      /\ args[1].kind \in {"None", "tuple2", "list", "object"} ) =>
        (outcome = "TypeError" /\ CtorCalls = {})

(* C5: get(d, tz) with d a datetime or date and tz a tzinfo or a string
   calls fromdatetime (d a datetime) or fromdate (d a date) with tzinfo = tz,
   the second argument; any other second argument raises TypeError and no
   constructor is called. *)
C5_SecondArgumentIsTimezone ==
    ( /\ op = "get" /\ Done /\ PlainKwargs
      /\ Len(args) = 2 /\ IsDate(args[1]) ) =>
        IF IsTzinfo(args[2]) \/ IsStr(args[2])
        THEN /\ Len(calls) = 1
             /\ calls[1].fn =
                  (IF IsDatetime(args[1]) THEN "fromdatetime" ELSE "fromdate")
             /\ calls[1].args = <<args[1]>>
             /\ calls[1].tzinfo = args[2]
        ELSE outcome = "TypeError" /\ CtorCalls = {}

(* C6: with tzinfo=tz, tz not None, the constructor that get calls for an
   Arrow, a datetime, a date, a string, an ISO-calendar 3-tuple or a numeric
   timestamp (fromdatetime, fromdate or fromtimestamp) receives tzinfo = tz;
   likewise for a string plus formats. *)
C6_TzinfoKeywordHonoured ==
    ( /\ op = "get" /\ Done
      /\ kwargs.extra = 0 /\ kwargs.tzinfo \notin {Absent, None}
      /\ \/ /\ Len(args) = 1
            /\ args[1].kind \in
                 {"Arrow", "datetime", "date", "str", "tuple3", "int",
                  "Decimal"}
         \/ StringAndFormats ) =>
        \A i \in CtorCalls :
            /\ calls[i].fn \in {"fromdatetime", "fromdate", "fromtimestamp"}
            /\ calls[i].tzinfo = kwargs.tzinfo

(* C7: with no tzinfo keyword, the datetime the parser produced is handed
   to fromdatetime unchanged (its parsed offset with it) and get passes no
   timezone override. *)
C7_ParsedDatetimeUnchanged ==
    ( /\ op = "get" /\ Done /\ kwargs.tzinfo = Absent
      /\ \E i \in ParserCalls : calls[i].ret # Absent ) =>
        /\ Len(calls) = 2
        /\ calls[1].fn \in ParserFns
        /\ calls[2].fn = "fromdatetime"
        /\ calls[2].args = <<calls[1].ret>>
        /\ calls[2].tzinfo \in {Absent, None}

C7_Witness ==
    /\ op = "get" /\ outcome = "returned" /\ kwargs.tzinfo = Absent
    /\ OneString
    /\ Len(calls) = 2
    /\ calls[1].fn = "parse_iso"
    /\ calls[1].ret = V("datetime", "+02:00")
    /\ calls[2].args[1] = V("datetime", "+02:00")

(* C8: now(tz) calls type.now with tzlocal when tz is omitted or None, with
   tz itself when tz is a tzinfo, and otherwise with what
   TzinfoParser.parse(tz) returned; it never calls type.now twice, and
   calls it once whenever TzinfoParser.parse did not raise. *)
C8_NowInTimezone ==
    (op = "now" /\ Done) =>
        LET tz == IF Len(args) = 0 THEN None ELSE args[1]
        IN  /\ Cardinality(NowCalls) <= 1
            /\ tz = None =>
                  /\ Len(calls) = 1
                  /\ calls[1].fn = "now"
                  /\ calls[1].tzinfo = tzlocal
            /\ IsTzinfo(tz) =>
                  /\ Len(calls) = 1
                  /\ calls[1].fn = "now"
                  /\ calls[1].tzinfo = tz
            /\ (tz # None /\ ~IsTzinfo(tz)) =>
                  /\ calls[1].fn = "TzinfoParser.parse"
                  /\ calls[1].args = <<tz>>
                  /\ IF calls[1].ret # Absent
                     THEN /\ Len(calls) = 2
                          /\ calls[2].fn = "now"
                          /\ calls[2].tzinfo = calls[1].ret
                     ELSE Len(calls) = 1 /\ outcome = "ParserError"

C8_Witness ==
    /\ op = "now" /\ outcome = "returned"
    /\ Len(args) = 1 /\ IsStr(args[1])
    /\ Len(calls) = 2
    /\ calls[2].fn = "now"
====
